---- MODULE Spec2Model ----
(***************************************************************************)
(* Model of pretrain_gpt.py: batch construction and sequence-parallel      *)
(* slicing (get_batch), curriculum post-processing (data_post_process),    *)
(* the staged forward functions (pre_process_func, custom_forward,         *)
(* post_process_func, flextrain_loss_func), the monolithic forward_step    *)
(* and the loss aggregation loss_func.                                     *)
(*                                                                         *)
(* Tensors are sequences (1-D) or sequences of rows (2-D) of integers.     *)
(* Python half-open, 0-based slices are translated to 1-based SubSeq.      *)
(***************************************************************************)
EXTENDS Integers, Sequences, FiniteSets, TLC

\* ------------------------------------------------------------------ bounds
MaxSeqLen == 4      \* args.seq_length ranges over 1..MaxSeqLen
MaxBatch == 2       \* rows of the raw batch range over 1..MaxBatch
MaxWorld == 2       \* parallel group sizes range over 1..MaxWorld
MaxTokens == 3      \* token positions of a loss_func call range over 1..MaxTokens
MaxLossVal == 2     \* per-token losses range over 0..MaxLossVal
MaxLayers == 3      \* the model has 1..MaxLayers transformer layers
MaxStageSeq == 2    \* args.seq_length of the staged forward ranges over 1..MaxStageSeq

\* ------------------------------------------------------- generic helpers
None == "None"

Min(a, b) == IF a < b THEN a ELSE b

Max(a, b) == IF a < b THEN b ELSE a

\* math.ceil(a / b) for a >= 0, b > 0
Ceil(a, b) == (a + b - 1) \div b

\* tensor.size()[0]
Rows(m) == Len(m)

\* tensor.size()[1]
Cols(m) == IF Len(m) = 0 THEN 0 ELSE Len(m[1])

\* torch.numel
Numel(m) == Rows(m) * Cols(m)

\* tensor.size()
Shape(m) == <<Rows(m), Cols(m)>>

\* m[:, a:b] with 0 <= a, python clamping of b
SliceCols(m, a, b) == [r \in 1..Len(m) |-> SubSeq(m[r], a + 1, Min(b, Len(m[r])))]

\* m[:, -k:]
LastCols(m, k) == [r \in 1..Len(m) |-> SubSeq(m[r], Max(Len(m[r]) - k, 0) + 1, Len(m[r]))]

\* m[:n, :]
SliceRows(m, n) == SubSeq(m, 1, Min(n, Len(m)))

\* tensor.view(-1): row-major flattening
RECURSIVE Flatten(_)
Flatten(m) == IF Len(m) = 0 THEN <<>> ELSE m[1] \o Flatten(Tail(m))

\* tensor.contiguous().view(-1, k)
View(m, k) ==
    LET flat == Flatten(m)
    IN [i \in 1..(Len(flat) \div k) |-> SubSeq(flat, (i - 1) * k + 1, i * k)]

\* torch.cat((a, b), 0)
Cat0(a, b) == a \o b

\* torch.cat along the sequence axis of the per-rank slices, in rank order
RECURSIVE CatCols(_, _)
CatCols(ms, n) ==
    IF n = 0 THEN <<>>
    ELSE IF n = 1 THEN ms[1]
    ELSE LET left == CatCols(ms, n - 1)
         IN [r \in 1..Len(left) |-> left[r] \o ms[n][r]]

\* --------------------------------------------------- external collaborators
\* tokenizer.eod
EOD == 0

\* attention_mask = None (the fused attention kernel masks by itself)
NoMask == [kind |-> "None", seq |-> 0]

\* tensor_parallel.broadcast_data(keys, data, datatype)['text'].long():
\* every rank of the group receives the same int64 tensor
broadcast_data(data) == data

\* position ids of one row: arange(seq), restarted after each EOD when
\* reset_position_ids is set
RECURSIVE RowPositionIds(_, _, _, _)
RowPositionIds(row, i, base, reset) ==
    IF i > Len(row) THEN <<>>
    ELSE <<(i - 1) - base>> \o
         RowPositionIds(row, i + 1,
                        IF reset /\ row[i] = EOD THEN i ELSE base, reset)

\* megatron.utils.get_ltor_masks_and_position_ids
get_ltor_masks_and_position_ids(tokens, reset_position_ids, eod_mask_loss, skip_mask) ==
    [attention_mask |-> IF skip_mask THEN NoMask
                        ELSE [kind |-> "causal", seq |-> Cols(tokens)],
     loss_mask |-> [r \in 1..Len(tokens) |->
                      [c \in 1..Len(tokens[r]) |->
                         IF eod_mask_loss /\ tokens[r][c] = EOD THEN 0 ELSE 1]],
     position_ids |-> [r \in 1..Len(tokens) |->
                         RowPositionIds(tokens[r], 1, 0, reset_position_ids)]]

\* -------------------------------------------------------------- get_batch
\* the condition under which get_batch slices labels (line 363)
SliceLabelsMutant(args, sp_world_size, seq_parallel_world_size) ==
    seq_parallel_world_size > 1

SliceLabels(args, sp_world_size, seq_parallel_world_size) ==
    sp_world_size > 1

\* the column range a rank keeps (lines 356-358)
SubSeqRangeMutant(seq_length, world_size, world_rank) ==
    LET sub_seq_length == seq_length \div world_size
    IN [start |-> world_rank * sub_seq_length,
        end |-> world_rank * sub_seq_length + sub_seq_length - 1]

SubSeqRange(seq_length, world_size, world_rank) ==
    LET sub_seq_length == seq_length \div world_size
    IN [start |-> world_rank * sub_seq_length,
        end |-> (world_rank + 1) * sub_seq_length]

\* the loss mask get_batch returns (line 366): the mask of line 337, unsliced
ReturnedLossMaskMutant(loss_mask, start, end) == SliceCols(loss_mask, start, end)

ReturnedLossMask(loss_mask, start, end) == loss_mask

\* get_batch(data_iterator) on the process whose ranks are in p
get_batch(data, args, mpuState, p) ==
    LET tokens_ == broadcast_data(data)
        labels == SliceCols(tokens_, 1, Cols(tokens_))
        tokens == SliceCols(tokens_, 0, Cols(tokens_) - 1)
        skip_mask == args.use_flash_attn
        m == get_ltor_masks_and_position_ids(tokens, args.reset_position_ids,
                                             args.eod_mask_loss, skip_mask)
        seq_parallel_world_size ==
            IF args.sequence_parallel THEN mpuState.tp_world_size
            ELSE mpuState.sp_world_size
        seq_parallel_world_rank ==
            IF args.sequence_parallel THEN p.tp_rank ELSE p.sp_rank
        seq_length == Cols(tokens)
        rg == SubSeqRange(seq_length, seq_parallel_world_size, seq_parallel_world_rank)
    IN IF seq_length % seq_parallel_world_size # 0
       THEN [error |-> "AssertionError"]
       ELSE [error |-> None,
             tokens |-> SliceCols(tokens, rg.start, rg.end),
             labels |-> IF SliceLabels(args, mpuState.sp_world_size,
                                       seq_parallel_world_size)
                        THEN SliceCols(labels, rg.start, rg.end)
                        ELSE labels,
             loss_mask |-> ReturnedLossMask(m.loss_mask, rg.start, rg.end),
             attention_mask |-> m.attention_mask,
             position_ids |-> SliceCols(m.position_ids, rg.start, rg.end)]

\* ------------------------------------------------------ data_post_process
\* row budget of seqlen_reshape (lines 384-387)
ReshapeNumRowMutant(orig_num_token, current_seqlen, rows) ==
    rows

ReshapeNumRow(orig_num_token, current_seqlen, rows) ==
    LET capped == Min(Ceil(orig_num_token, current_seqlen + 1), rows)
    IN IF capped > 1 /\ capped % 2 # 0 THEN capped - 1 ELSE capped

\* seqlen_truncate (line 375)
TruncateTextMutant(text, current_seqlen) == SliceCols(text, 0, current_seqlen)

TruncateText(text, current_seqlen) == SliceCols(text, 0, current_seqlen + 1)

\* seqlen_reshape (lines 380-388)
ReshapeText(text, current_seqlen) ==
    LET orig_num_token == Numel(text)
        reshape_len == (Cols(text) \div (current_seqlen + 1)) * (current_seqlen + 1)
        cat == Cat0(View(SliceCols(text, 0, reshape_len), current_seqlen + 1),
                    LastCols(text, current_seqlen + 1))
    IN SliceRows(cat, ReshapeNumRow(orig_num_token, current_seqlen, Rows(cat)))

\* data_post_process(data, data_sampler_state_dict): the new data['text'] and
\* the new global args
data_post_process(text, current_difficulties, args) ==
    IF ~args.data_efficiency_curriculum_learning
    THEN [text |-> text, args |-> args]
    ELSE IF "seqlen_truncate" \in DOMAIN current_difficulties
    THEN LET current_seqlen == current_difficulties["seqlen_truncate"]
         IN [text |-> IF current_seqlen < args.seq_length
                      THEN TruncateText(text, current_seqlen) ELSE text,
             args |-> [args EXCEPT !.seqlen_type = "seqlen_truncate"]]
    ELSE IF "seqlen_reshape" \in DOMAIN current_difficulties
    THEN LET current_seqlen == current_difficulties["seqlen_reshape"]
         IN [text |-> IF current_seqlen < args.seq_length
                      THEN ReshapeText(text, current_seqlen) ELSE text,
             args |-> [args EXCEPT !.seqlen_type = "seqlen_reshape"]]
    ELSE [text |-> text, args |-> [args EXCEPT !.seqlen_type = None]]

\* ------------------------------------------------------------ scalars
\* a float scalar is an exact fraction n/d in lowest terms; d = 0 is NaN
RECURSIVE GCD(_, _)
GCD(a, b) == IF b = 0 THEN a ELSE GCD(b, a % b)

NaN == [n |-> 0, d |-> 0]

Frac(n, d) ==
    IF d = 0 THEN NaN
    ELSE LET g == GCD(n, d)
         IN IF g = 0 THEN [n |-> 0, d |-> 1] ELSE [n |-> n \div g, d |-> d \div g]

Scalar(i) == Frac(i, 1)

\* a + b
Add(a, b) == IF a.d = 0 \/ b.d = 0 THEN NaN
             ELSE Frac(a.n * b.d + b.n * a.d, a.d * b.d)

\* a * b
Mul(a, b) == IF a.d = 0 \/ b.d = 0 THEN NaN ELSE Frac(a.n * b.n, a.d * b.d)

\* a / b (0/0 and x/0 are treated alike: not a finite number)
Div(a, b) == IF a.d = 0 \/ b.d = 0 THEN NaN ELSE Frac(a.n * b.d, a.d * b.n)

\* torch.sum of a 1-D integer tensor
RECURSIVE SumSeq(_)
SumSeq(v) == IF Len(v) = 0 THEN 0 ELSE v[1] + SumSeq(Tail(v))

\* python sum() of a list of scalars
RECURSIVE SumScalars(_)
SumScalars(v) == IF Len(v) = 0 THEN Scalar(0) ELSE Add(v[1], SumScalars(Tail(v)))

\* python max() of a non-empty list
RECURSIVE MaxOf(_)
MaxOf(v) == IF Len(v) = 1 THEN v[1] ELSE Max(v[1], MaxOf(Tail(v)))

\* ---------------------------------------------------------------- loss_func
\* megatron.utils.average_losses_across_data_parallel_group([loss]): all-reduce
\* sum with the losses of the other data-parallel ranks, divided by the group size
average_losses_across_data_parallel_group(loss, others) ==
    Div(Add(loss, SumScalars(others)), Scalar(1 + Len(others)))

\* losses.view(-1) * loss_mask: elementwise, a one-element tensor broadcasts,
\* any other size mismatch raises
CanMultiply(a, b) == Len(a) = Len(b) \/ Len(a) = 1 \/ Len(b) = 1

Multiply(a, b) ==
    [i \in 1..Max(Len(a), Len(b)) |->
        (IF Len(a) = 1 THEN a[1] ELSE a[i]) * (IF Len(b) = 1 THEN b[1] ELSE b[i])]

\* the masked mean (lines 431-433)
MaskedMeanMutant(losses, mask) ==
    Div(Scalar(SumSeq(Multiply(losses, mask))), Scalar(Len(mask)))

MaskedMean(losses, mask) ==
    Div(Scalar(SumSeq(Multiply(losses, mask))), Scalar(SumSeq(mask)))

\* the scalar returned for backpropagation (lines 437-450)
TotalLossMutant(a, loss, averaged_loss, moe_loss, mos_loss) ==
    IF a.mos \/ a.kd THEN Add(Add(averaged_loss, moe_loss), mos_loss)
    ELSE IF MaxOf(a.num_experts) <= 1 THEN averaged_loss
    ELSE Add(averaged_loss, moe_loss)

TotalLoss(a, loss, averaged_loss, moe_loss, mos_loss) ==
    IF a.mos \/ a.kd THEN Add(Add(loss, moe_loss), mos_loss)
    ELSE IF MaxOf(a.num_experts) <= 1 THEN loss
    ELSE Add(loss, moe_loss)

\* the metrics map (lines 441-450)
MetricsMutant(a, total, averaged_loss, moe_loss, mos_loss) ==
    IF a.mos \/ a.kd
    THEN ("lm loss" :> averaged_loss) @@ ("moe loss" :> moe_loss)
         @@ ((IF a.mos THEN "mos loss" ELSE "kd loss") :> mos_loss)
    ELSE ("lm loss" :> averaged_loss) @@ ("moe loss" :> moe_loss)

Metrics(a, total, averaged_loss, moe_loss, mos_loss) ==
    IF a.mos
    THEN ("total loss" :> total) @@ ("lm loss" :> averaged_loss)
         @@ ("moe loss" :> moe_loss) @@ ("mos loss" :> mos_loss)
    ELSE IF a.kd
    THEN ("total loss" :> total) @@ ("lm loss" :> averaged_loss)
         @@ ("moe loss" :> moe_loss) @@ ("kd loss" :> mos_loss)
    ELSE IF MaxOf(a.num_experts) <= 1
    THEN ("lm loss" :> averaged_loss)
    ELSE ("lm loss" :> averaged_loss) @@ ("moe loss" :> moe_loss)

\* loss_func(loss_mask, moe_loss, mos_loss, output_tensor); others are the
\* primary losses of the other data-parallel ranks
loss_func(a, loss_mask, moe_loss, mos_loss, output_tensor, others) ==
    LET losses == Flatten(output_tensor)
        mask == Flatten(loss_mask)
    IN IF ~CanMultiply(losses, mask)
       THEN [error |-> "RuntimeError"]
       ELSE LET loss == MaskedMean(losses, mask)
                averaged_loss == average_losses_across_data_parallel_group(loss, others)
                total == TotalLoss(a, loss, averaged_loss, moe_loss, mos_loss)
            IN [error |-> None,
                loss |-> total,
                metrics |-> Metrics(a, total, averaged_loss, moe_loss, mos_loss)]

\* ---------------------------------------------------------------- the model
\* activations are integers modulo HiddenMod
HiddenMod == 7

\* the python value None in a list of scalars
NoneLoss == [n |-> 0, d |-> -1]

\* model.language_model.embedding(input_ids, position_ids)
embedding(input_ids, position_ids) ==
    [r \in 1..Len(input_ids) |-> [c \in 1..Len(input_ids[r]) |->
        (2 * input_ids[r][c] + position_ids[r][c]) % HiddenMod]]

\* utils.make_viewless_tensor: same values, no view on the embedding output
make_viewless_tensor(t) == t

\* one transformer layer: layer(x, attention_mask); causal (position c sees
\* positions <= c) with an explicit causal mask and with the fused kernel
\* alike; returns hidden states alone or (hidden states, auxiliary loss or None)
layer_call(layer, x, attention_mask) ==
    [tuple |-> layer.tuple,
     x |-> [r \in 1..Len(x) |-> [c \in 1..Len(x[r]) |->
              (layer.a * x[r][c] + (IF c > 1 THEN x[r][c - 1] ELSE 0) + layer.b)
                  % HiddenMod]],
     moe_loss |-> layer.moe]

\* model.language_model.encoder.final_layernorm
final_layernorm(x) ==
    [r \in 1..Len(x) |-> [c \in 1..Len(x[r]) |-> (3 * x[r][c] + 1) % HiddenMod]]

\* tensor_parallel.vocab_parallel_cross_entropy(logits, labels): per-token loss
vocab_parallel_cross_entropy(logits, labels) ==
    [r \in 1..Len(logits) |-> [c \in 1..Len(logits[r]) |->
        (logits[r][c] + labels[r][c]) % 3]]

\* post_language_model_processing(hidden, labels, weight, ...): the logits, or
\* with labels the per-token cross entropy of the logits
post_language_model_processing(hidden, labels, withLabels) ==
    IF withLabels THEN vocab_parallel_cross_entropy(hidden, labels) ELSE hidden

\* the encoder of the monolithic forward pass: every layer in order
RECURSIVE EncoderForward(_, _, _, _, _)
EncoderForward(layers, index, x, moe_losses, attention_mask) ==
    IF index >= Len(layers) THEN [x |-> x, moe_losses |-> moe_losses]
    ELSE LET output == layer_call(layers[index + 1], x, attention_mask)
         IN EncoderForward(layers, index + 1, output.x,
                           IF output.tuple THEN Append(moe_losses, output.moe_loss)
                           ELSE moe_losses,
                           attention_mask)

\* GPTModel.forward(tokens, position_ids, attention_mask, labels=...): the
\* monolithic forward pass, returning (lm_output, moe_losses)
GPTModel_forward(a, layers, tokens, position_ids, attention_mask, labels, withLabels) ==
    LET \* the legacy seqlen curriculum shortens the inputs of the forward pass
        trunc == a.curriculum_learning_legacy /\ a.curriculum_seqlen < Cols(tokens)
        tk == IF trunc THEN SliceCols(tokens, 0, a.curriculum_seqlen) ELSE tokens
        ps == IF trunc THEN SliceCols(position_ids, 0, a.curriculum_seqlen)
              ELSE position_ids
        lb == IF trunc /\ withLabels THEN SliceCols(labels, 0, a.curriculum_seqlen)
              ELSE labels
        enc == EncoderForward(layers, 0, embedding(tk, ps), <<>>, attention_mask)
    IN [output |-> post_language_model_processing(final_layernorm(enc.x), lb,
                                                  withLabels),
        other_losses |-> enc.moe_losses]

\* --------------------------------------------------------- staged forward
\* get_batch_func: the three input tuples made from get_batch's tuple
get_batch_func(batch_data) ==
    [model_inputs |-> [input_ids |-> batch_data.tokens,
                       position_ids |-> batch_data.position_ids,
                       attention_mask |-> batch_data.attention_mask],
     post_inputs |-> [labels |-> batch_data.labels],
     loss_inputs |-> [loss_mask |-> batch_data.loss_mask]]

\* pre_process_func(model, model_inputs)
pre_process_func(model_inputs) ==
    [passed_down |-> [x |-> make_viewless_tensor(
                               embedding(model_inputs.input_ids,
                                         model_inputs.position_ids)),
                      moe_losses |-> <<>>],
     each_layer |-> [attention_mask |-> model_inputs.attention_mask]]

\* the body of the loop of custom_forward for one layer (lines 130-142);
\* applied records the indices of the layers called
LayerStepMutant(layers, index, st, attention_mask) ==
    LET output == layer_call(layers[index + 1], st.x, attention_mask)
    IN [x |-> output.x,
        moe_losses |-> IF output.tuple THEN Append(st.moe_losses, output.moe_loss)
                       ELSE st.moe_losses,
        applied |-> Append(st.applied, index)]

LayerStep(layers, index, st, attention_mask) ==
    LET output == layer_call(layers[index + 1], st.x, attention_mask)
    IN [x |-> output.x,
        moe_losses |-> Append(st.moe_losses,
                              IF output.tuple THEN output.moe_loss ELSE Scalar(0)),
        applied |-> Append(st.applied, index)]

\* custom_forward(model, start, end)(x, moe_losses, attention_mask)
RECURSIVE custom_forward(_, _, _, _, _)
custom_forward(layers, start, end, st, attention_mask) ==
    IF start >= end THEN st
    ELSE custom_forward(layers, start + 1, end,
                        LayerStep(layers, start, st, attention_mask), attention_mask)

\* post_process_func(model, passed_down, post_inputs)
post_process_func(passed_down, post_inputs) ==
    [lm_output |-> post_language_model_processing(final_layernorm(passed_down.x),
                                                  post_inputs.labels, TRUE),
     moe_losses |-> passed_down.moe_losses]

\* the not-None entries of a list of auxiliary losses (lines 207-210, 508-511)
RECURSIVE NotNone(_)
NotNone(v) ==
    IF Len(v) = 0 THEN <<>>
    ELSE (IF v[1] = NoneLoss THEN <<>> ELSE <<v[1]>>) \o NotNone(Tail(v))

\* the auxiliary loss of flextrain_loss_func (lines 207-211)
FlexMoeLossMutant(a, other_losses) == SumScalars(NotNone(other_losses))

FlexMoeLoss(a, other_losses) == Mul(SumScalars(NotNone(other_losses)), a.moe_loss_coeff)

\* flextrain_loss_func(model_output, loss_inputs)
flextrain_loss_func(a, model_output, loss_inputs, others) ==
    LET moe_loss == FlexMoeLoss(a, model_output.moe_losses)
        mos_loss == Scalar(0)
    IN loss_func(a, loss_inputs.loss_mask, moe_loss, mos_loss,
                 model_output.lm_output, others)

\* ------------------------------------------------------------ forward_step
\* nn.KLDivLoss(reduction='batchmean') of the temperature-scaled student and
\* teacher distributions: non-negative, zero when the outputs agree
KLDivLoss(stu_output, tea_output) ==
    LET s == Flatten(stu_output)
        t == Flatten(tea_output)
    IN Frac(SumSeq([i \in 1..Len(s) |-> (s[i] - t[i]) * (s[i] - t[i])]),
            Len(stu_output))

\* the legacy curriculum condition of calculate_mos_loss and forward_step
LegacyTruncates(a) == a.curriculum_learning_legacy /\ a.curriculum_seqlen < a.seq_length

\* attention_mask[:, :, :n, :n]
TruncateMask(attention_mask, n) ==
    IF attention_mask = NoMask THEN NoMask
    ELSE [attention_mask EXCEPT !.seq = Min(attention_mask.seq, n)]

\* the teacher forward pass did not run
NoTeacherInputs ==
    [called |-> FALSE, tokens |-> <<>>, position_ids |-> <<>>, attention_mask |-> NoMask]

\* calculate_mos_loss(args, stu_output, teacher_model, tokens, position_ids,
\* attention_mask)
calculate_mos_loss(a, stu_output, teacher_model, tokens, position_ids, attention_mask) ==
    IF ~teacher_model.present
    THEN [error |-> None, mos_loss |-> Scalar(0), teacher_inputs |-> NoTeacherInputs]
    ELSE LET trunc == LegacyTruncates(a)
             tk == IF trunc THEN SliceCols(tokens, 0, a.curriculum_seqlen) ELSE tokens
             ps == IF trunc THEN SliceCols(position_ids, 0, a.curriculum_seqlen)
                   ELSE position_ids
             am == IF trunc THEN TruncateMask(attention_mask, a.curriculum_seqlen)
                   ELSE attention_mask
             tea_output == GPTModel_forward(a, teacher_model.layers, tk, ps, am,
                                            <<>>, FALSE).output
         IN IF trunc /\ attention_mask = NoMask
            THEN \* None[:, :, :n, :n]
                 [error |-> "TypeError"]
            ELSE IF Shape(stu_output) # Shape(tea_output)
            THEN [error |-> "AssertionError"]
            ELSE [error |-> None,
                  mos_loss |-> Mul(Div(Mul(Scalar(a.kd_temp * a.kd_temp),
                                           KLDivLoss(stu_output, tea_output)),
                                       Scalar(a.seq_length)),
                                   Scalar(a.kd_beta_ce)),
                  teacher_inputs |-> [called |-> TRUE, tokens |-> tk,
                                      position_ids |-> ps, attention_mask |-> am]]

\* the curriculum bookkeeping of forward_step (lines 489-493)
StepCurriculumArgsMutant(a0, tokens) ==
    [a0 EXCEPT !.curriculum_seqlen = Cols(tokens)]

StepCurriculumArgs(a0, tokens) ==
    IF a0.data_efficiency_curriculum_learning
    THEN [a0 EXCEPT !.curriculum_seqlen = Cols(tokens),
                    !.numel = IF a0.seqlen_type = "seqlen_reshape"
                              THEN Numel(tokens) ELSE a0.numel]
    ELSE a0

\* forward_step(data_iterator, model): the new args, the output tensor and the
\* arguments bound in the returned partial(loss_func, ...)
forward_step(text, a0, mpuSt, p, layers) ==
    LET b == get_batch(text, a0, mpuSt, p)
    IN IF b.error # None THEN [error |-> b.error, args |-> a0]
       ELSE
       LET a == StepCurriculumArgs(a0, b.tokens)
           distill == a.mos \/ a.kd
           fwd == GPTModel_forward(a, layers, b.tokens, b.position_ids,
                                   b.attention_mask, b.labels, ~distill)
           labels == IF distill /\ LegacyTruncates(a)
                     THEN SliceCols(b.labels, 0, a.curriculum_seqlen)
                     ELSE b.labels
           loss_mask == IF LegacyTruncates(a)
                        THEN SliceCols(b.loss_mask, 0, a.curriculum_seqlen)
                        ELSE b.loss_mask
           moe_loss == Mul(SumScalars(NotNone(fwd.other_losses)), a.moe_loss_coeff)
           mos == IF distill /\ a.teacher_forward /\ a.teacher_model.present
                  THEN calculate_mos_loss(a, fwd.output, a.teacher_model, b.tokens,
                                          b.position_ids, b.attention_mask)
                  ELSE [error |-> None, mos_loss |-> Scalar(0),
                        teacher_inputs |-> NoTeacherInputs]
       IN IF distill /\ Shape(fwd.output) # Shape(labels)
          THEN [error |-> "RuntimeError", args |-> a]
          ELSE IF mos.error # None THEN [error |-> mos.error, args |-> a]
          ELSE [error |-> None,
                args |-> a,
                output_tensor |-> IF distill
                                  THEN vocab_parallel_cross_entropy(fwd.output, labels)
                                  ELSE fwd.output,
                loss_mask |-> loss_mask,
                moe_loss |-> moe_loss,
                mos_loss |-> mos.mos_loss,
                labels |-> labels,
                model_inputs |-> [tokens |-> b.tokens,
                                  position_ids |-> b.position_ids,
                                  attention_mask |-> b.attention_mask],
                teacher_inputs |-> mos.teacher_inputs]

\* ---------------------------------------------------------- get_batch_pipe
\* the legacy curriculum condition of get_batch_pipe (line 417)
PipeTruncatesMutant(a, tokens) ==
    a.curriculum_learning_legacy /\ a.curriculum_seqlen + 1 < Cols(tokens)

PipeTruncates(a, tokens) ==
    a.curriculum_learning_legacy /\ a.curriculum_seqlen < Cols(tokens)

\* get_batch_pipe(data): (tokens, position_ids, attention_mask), (labels, loss_mask)
get_batch_pipe(text, a) ==
    LET tokens_ == broadcast_data(text)
        labels == SliceCols(tokens_, 1, Cols(tokens_))
        tokens == SliceCols(tokens_, 0, Cols(tokens_) - 1)
        m == get_ltor_masks_and_position_ids(tokens, a.reset_position_ids,
                                             a.eod_mask_loss, FALSE)
        trunc == PipeTruncates(a, tokens)
    IN [error |-> None,
        tokens |-> IF trunc THEN SliceCols(tokens, 0, a.curriculum_seqlen) ELSE tokens,
        position_ids |-> IF trunc THEN SliceCols(m.position_ids, 0, a.curriculum_seqlen)
                         ELSE m.position_ids,
        attention_mask |-> m.attention_mask,
        labels |-> IF trunc THEN SliceCols(labels, 0, a.curriculum_seqlen) ELSE labels,
        loss_mask |-> IF trunc THEN SliceCols(m.loss_mask, 0, a.curriculum_seqlen)
                      ELSE m.loss_mask]

\* ------------------------------------------------------------------ state
VARIABLES
    pc,                   \* position in the training step
    args,                 \* the global args (get_args())
    mpuState,             \* parallel group sizes (mpu)
    current_difficulties, \* data_sampler_state_dict['current_difficulties']
    raw,                  \* the batch as loaded, before data_post_process
    data,                 \* data['text'] handed to get_batch
    batch,                \* per process: the tuple returned by get_batch
    lossIn,               \* the arguments of a loss_func call
    lossOut,              \* what the loss_func call returned
    layers,               \* model.language_model.encoder.layers
    flex,                 \* the staged (FlexTrain) execution of the step
    mono,                 \* the monolithic execution: forward_step, then loss_func
    pipe                  \* the tuples returned by get_batch_pipe

batchVars == <<mpuState, current_difficulties, raw, data, batch>>

lossVars == <<lossIn, lossOut>>

stageVars == <<layers, flex, mono, pipe>>

vars == <<pc, args, batchVars, lossVars, stageVars>>

\* get_batch has not returned yet on a process
NotRun == [error |-> "NotRun"]

\* the processes of one tensor/sequence-parallel group
Procs(m) == [tp_rank : 0..(m.tp_world_size - 1), sp_rank : 0..(m.sp_world_size - 1)]

\* a loaded batch [rows, seq_length + 1] of pairwise distinct token ids, with
\* an end-of-document token in row 1 at column eodcol (none when eodcol = 0)
RawText(rows, cols, eodcol) ==
    [r \in 1..rows |-> [c \in 1..cols |->
        IF r = 1 /\ c = eodcol THEN EOD ELSE (r - 1) * cols + c]]

\* mask and position options exercised together
FlagCombos == {<<FALSE, FALSE, FALSE>>, <<TRUE, TRUE, TRUE>>,
               <<FALSE, TRUE, FALSE>>, <<FALSE, FALSE, TRUE>>}

\* the curriculum schedule: no key, one key, or both keys
Difficulties ==
    UNION {[S -> 1..MaxSeqLen] : S \in {{}, {"seqlen_truncate"}, {"seqlen_reshape"}}}
    \cup {[k \in {"seqlen_truncate", "seqlen_reshape"} |-> v] : v \in 1..MaxSeqLen}

\* group sizes: the dedicated sequence-parallel group excludes tensor parallelism
MpuStates ==
    {m \in [tp_world_size : 1..MaxWorld, sp_world_size : 1..MaxWorld] :
        m.sp_world_size > 1 => m.tp_world_size = 1}

ArgsDefault ==
    [seq_length |-> 1,
     sequence_parallel |-> FALSE,
     use_flash_attn |-> FALSE,
     reset_position_ids |-> FALSE,
     eod_mask_loss |-> FALSE,
     data_efficiency_curriculum_learning |-> FALSE,
     seqlen_type |-> "unset",
     mos |-> FALSE,
     kd |-> FALSE,
     num_experts |-> <<1>>,
     moe_loss_coeff |-> Scalar(1),
     curriculum_learning_legacy |-> FALSE,
     curriculum_seqlen |-> 1,
     teacher_forward |-> FALSE,
     teacher_model |-> [present |-> FALSE, layers |-> <<>>],
     kd_temp |-> 1,
     kd_beta_ce |-> 1,
     numel |-> 0,
     deepspeed |-> FALSE,
     no_pipeline_parallel |-> FALSE]

InitBatch ==
    /\ pc = "loaded"
    /\ mpuState \in MpuStates
    /\ \E sl \in 1..MaxSeqLen, sp \in BOOLEAN, de \in BOOLEAN, fl \in FlagCombos :
          /\ (mpuState.sp_world_size > 1 => ~sp)
          /\ args = [ArgsDefault EXCEPT
                        !.seq_length = sl,
                        !.sequence_parallel = sp,
                        !.use_flash_attn = fl[1],
                        !.reset_position_ids = fl[2],
                        !.eod_mask_loss = fl[3],
                        !.data_efficiency_curriculum_learning = de]
    /\ current_difficulties \in Difficulties
    /\ \E rows \in 1..MaxBatch, eodcol \in 0..(args.seq_length + 1) :
          raw = RawText(rows, args.seq_length + 1, eodcol)
    /\ data = raw
    /\ batch = [p \in Procs(mpuState) |-> NotRun]
    /\ lossIn = NotRun
    /\ lossOut = NotRun
    /\ layers = <<>>
    /\ flex = NotRun
    /\ mono = NotRun
    /\ pipe = NotRun

\* the data loader applies data_post_process to the loaded batch
DataPostProcess ==
    /\ pc = "loaded"
    /\ LET r == data_post_process(data, current_difficulties, args)
       IN /\ data' = r.text
          /\ args' = r.args
    /\ pc' = "ready"
    /\ UNCHANGED <<mpuState, current_difficulties, raw, batch, lossVars, stageVars>>

\* process p runs get_batch on the broadcast batch
GetBatch(p) ==
    /\ pc = "ready"
    /\ batch[p] = NotRun
    /\ batch' = [batch EXCEPT ![p] = get_batch(data, args, mpuState, p)]
    /\ UNCHANGED <<pc, args, mpuState, current_difficulties, raw, data, lossVars, stageVars>>

NextBatch ==
    \/ DataPostProcess
    \/ \E p \in Procs(mpuState) : GetBatch(p)

SpecBatch == InitBatch /\ [][NextBatch]_vars

\* ------------------------------------------------- the loss_func call alone
\* 1 x n tensors with cells in vals
Tensors(n, vals) == {<<row>> : row \in [1..n -> vals]}

ExpertCounts == {<<1>>, <<4>>, <<1, 2>>}

InitLoss ==
    /\ pc = "loss"
    /\ \E mos \in BOOLEAN, kd \in BOOLEAN, ne \in ExpertCounts :
          args = [ArgsDefault EXCEPT !.mos = mos, !.kd = kd, !.num_experts = ne]
    /\ \E n \in 1..MaxTokens :
          lossIn \in [loss_mask : Tensors(n, {0, 1}),
                      moe_loss : {Scalar(0), Scalar(1), Frac(1, 2)},
                      mos_loss : {Scalar(0), Scalar(2)},
                      output_tensor : Tensors(n, 0..MaxLossVal),
                      others : {<<>>, <<Scalar(MaxLossVal + 3)>>}]
    /\ lossOut = NotRun
    /\ mpuState = [tp_world_size |-> 1, sp_world_size |-> 1]
    /\ current_difficulties = <<>>
    /\ raw = <<>>
    /\ data = <<>>
    /\ batch = [p \in Procs(mpuState) |-> NotRun]
    /\ layers = <<>>
    /\ flex = NotRun
    /\ mono = NotRun
    /\ pipe = NotRun

\* the training loop calls the loss function on the output tensor
LossFunc ==
    /\ pc = "loss"
    /\ lossOut' = loss_func(args, lossIn.loss_mask, lossIn.moe_loss, lossIn.mos_loss,
                            lossIn.output_tensor, lossIn.others)
    /\ pc' = "done"
    /\ UNCHANGED <<args, batchVars, lossIn, stageVars>>

NextLoss == LossFunc

SpecLoss == InitLoss /\ [][NextLoss]_vars

\* --------------------------------- one step, staged and monolithic, side by side
\* the layers a model is built from: hidden states alone, (hidden, loss),
\* (hidden, None)
LayerKinds ==
    {[a |-> 1, b |-> 1, tuple |-> FALSE, moe |-> NoneLoss],
     [a |-> 2, b |-> 0, tuple |-> TRUE, moe |-> Scalar(1)],
     [a |-> 1, b |-> 2, tuple |-> TRUE, moe |-> NoneLoss]}

Models == UNION {[1..n -> LayerKinds] : n \in 1..MaxLayers}

\* args.teacher_model: none, or a one-layer teacher
Teachers ==
    {[present |-> FALSE, layers |-> <<>>],
     [present |-> TRUE, layers |-> <<[a |-> 1, b |-> 1, tuple |-> FALSE, moe |-> NoneLoss]>>]}

\* the process the step runs on
ThisProc == [tp_rank |-> 0, sp_rank |-> 0]

FlexStart ==
    [phase |-> "start", inputs |-> NotRun,
     st |-> [x |-> <<>>, moe_losses |-> <<>>, applied |-> <<>>],
     attention_mask |-> NoMask, next |-> 0, stages |-> 0,
     model_output |-> NotRun, result |-> NotRun]

MonoStart == [phase |-> "start", fs |-> NotRun, result |-> NotRun]

InitStage ==
    /\ pc = "step"
    /\ mpuState = [tp_world_size |-> 1, sp_world_size |-> 1]
    /\ \E sl \in 1..MaxStageSeq, mode \in {<<FALSE, FALSE>>, <<TRUE, FALSE>>, <<FALSE, TRUE>>},
          ne \in {<<1>>, <<4>>}, coeff \in {Scalar(1), Frac(1, 2)},
          legacy \in BOOLEAN, cs \in 1..MaxStageSeq, de \in BOOLEAN, teacher \in Teachers :
          /\ cs <= sl
          /\ (~legacy => cs = sl)
          /\ (~(mode[1] \/ mode[2]) => ~teacher.present)
          /\ args = [ArgsDefault EXCEPT
                        !.seq_length = sl,
                        !.mos = mode[1],
                        !.kd = mode[2],
                        !.num_experts = ne,
                        !.moe_loss_coeff = coeff,
                        !.curriculum_learning_legacy = legacy,
                        !.curriculum_seqlen = cs,
                        !.data_efficiency_curriculum_learning = de,
                        !.teacher_forward = teacher.present,
                        !.teacher_model = teacher]
    /\ current_difficulties = <<>>
    /\ \E rows \in 1..MaxBatch : raw = RawText(rows, args.seq_length + 1, 0)
    /\ data = raw
    /\ batch = [p \in Procs(mpuState) |-> NotRun]
    /\ lossIn = NotRun
    /\ lossOut = NotRun
    /\ layers \in Models
    /\ flex = FlexStart
    /\ mono = MonoStart
    /\ pipe = NotRun

\* FlexTrain fetches the batch: get_batch_func
FlexGetBatch ==
    /\ flex.phase = "start"
    /\ LET b == get_batch(data, args, mpuState, ThisProc)
       IN /\ b.error = None
          /\ flex' = [flex EXCEPT !.phase = "batched", !.inputs = get_batch_func(b)]
    /\ UNCHANGED <<pc, args, batchVars, lossVars, layers, mono, pipe>>

\* FlexTrain runs pre_process_func
FlexPreProcess ==
    /\ flex.phase = "batched"
    /\ LET r == pre_process_func(flex.inputs.model_inputs)
       IN flex' = [flex EXCEPT
                      !.phase = "layers",
                      !.st = [x |-> r.passed_down.x,
                              moe_losses |-> r.passed_down.moe_losses,
                              applied |-> <<>>],
                      !.attention_mask = r.each_layer.attention_mask]
    /\ UNCHANGED <<pc, args, batchVars, lossVars, layers, mono, pipe>>

\* FlexTrain runs the next range of layers [flex.next, end)
FlexCustomForward(end) ==
    /\ flex.phase = "layers"
    /\ flex.next < end
    /\ flex' = [flex EXCEPT
                   !.st = custom_forward(layers, flex.next, end, flex.st,
                                         flex.attention_mask),
                   !.next = end,
                   !.stages = flex.stages + 1]
    /\ UNCHANGED <<pc, args, batchVars, lossVars, layers, mono, pipe>>

\* FlexTrain runs post_process_func after the last layer
FlexPostProcess ==
    /\ flex.phase = "layers"
    /\ flex.next = Len(layers)
    /\ flex' = [flex EXCEPT
                   !.phase = "post",
                   !.model_output =
                       post_process_func([x |-> flex.st.x,
                                          moe_losses |-> flex.st.moe_losses],
                                         flex.inputs.post_inputs)]
    /\ UNCHANGED <<pc, args, batchVars, lossVars, layers, mono, pipe>>

\* FlexTrain computes the loss: flextrain_loss_func
FlexLoss ==
    /\ flex.phase = "post"
    /\ flex' = [flex EXCEPT
                   !.phase = "done",
                   !.result = flextrain_loss_func(args, flex.model_output,
                                                  flex.inputs.loss_inputs, <<>>)]
    /\ UNCHANGED <<pc, args, batchVars, lossVars, layers, mono, pipe>>

\* the training loop runs forward_step
ForwardStep ==
    /\ mono.phase = "start"
    /\ LET r == forward_step(data, args, mpuState, ThisProc, layers)
       IN /\ args' = r.args
          /\ mono' = [mono EXCEPT
                         !.phase = IF r.error = None THEN "stepped" ELSE "failed",
                         !.fs = r]
    /\ UNCHANGED <<pc, batchVars, lossVars, layers, flex, pipe>>

\* the training loop calls the partial(loss_func, ...) that forward_step returned
MonoLossFunc ==
    /\ mono.phase = "stepped"
    /\ mono' = [mono EXCEPT
                   !.phase = "done",
                   !.result = loss_func(args, mono.fs.loss_mask, mono.fs.moe_loss,
                                        mono.fs.mos_loss, mono.fs.output_tensor, <<>>)]
    /\ UNCHANGED <<pc, args, batchVars, lossVars, layers, flex, pipe>>

NextStage ==
    \/ FlexGetBatch
    \/ FlexPreProcess
    \/ \E end \in 1..Len(layers) : FlexCustomForward(end)
    \/ FlexPostProcess
    \/ FlexLoss
    \/ ForwardStep
    \/ MonoLossFunc

SpecStage == InitStage /\ [][NextStage]_vars

\* ------------------------------- one training step under a curriculum
\* model_provider builds the pipeline model, fed by get_batch_pipe (line 271)
UsesPipe(a) == a.deepspeed /\ ~a.no_pipeline_parallel

\* the truncation mode the previous step left in args
SeqlenTypes == {"unset", "seqlen_truncate", "seqlen_reshape"}

\* the external scheduler has set the curriculum state; the batch is loaded
InitStep ==
    /\ pc = "loaded"
    /\ mpuState = [tp_world_size |-> 1, sp_world_size |-> 1]
    /\ \E sl \in 1..MaxSeqLen, cs \in 1..MaxSeqLen, legacy \in BOOLEAN, de \in BOOLEAN,
          mode \in {<<FALSE, FALSE>>, <<TRUE, FALSE>>, <<FALSE, TRUE>>},
          teacher \in Teachers, fl \in BOOLEAN, ds \in BOOLEAN, npp \in BOOLEAN,
          st \in SeqlenTypes :
          /\ cs <= sl
          /\ (~legacy => cs = sl)
          /\ (~(mode[1] \/ mode[2]) => ~teacher.present)
          /\ (~de => st = "unset")
          /\ (~ds => npp)
          /\ args = [ArgsDefault EXCEPT
                        !.seq_length = sl,
                        !.use_flash_attn = fl,
                        !.mos = mode[1],
                        !.kd = mode[2],
                        !.curriculum_learning_legacy = legacy,
                        !.curriculum_seqlen = cs,
                        !.data_efficiency_curriculum_learning = de,
                        !.seqlen_type = st,
                        !.teacher_forward = teacher.present,
                        !.teacher_model = teacher,
                        !.deepspeed = ds,
                        !.no_pipeline_parallel = npp]
    /\ current_difficulties \in Difficulties
    /\ (~args.data_efficiency_curriculum_learning => current_difficulties = <<>>)
    /\ \E rows \in 1..MaxBatch : raw = RawText(rows, args.seq_length + 1, 0)
    /\ data = raw
    /\ batch = [p \in Procs(mpuState) |-> NotRun]
    /\ lossIn = NotRun
    /\ lossOut = NotRun
    /\ layers \in {m \in Models : Len(m) = 1}
    /\ flex = NotRun
    /\ mono = MonoStart
    /\ pipe = NotRun

\* the pipeline engine feeds the loaded batch through get_batch_pipe
GetBatchPipe ==
    /\ pc = "ready"
    /\ UsesPipe(args)
    /\ pipe = NotRun
    /\ pipe' = get_batch_pipe(data, args)
    /\ UNCHANGED <<pc, args, batchVars, lossVars, layers, flex, mono>>

\* without the pipeline model the training loop runs forward_step on the batch
StepForwardStep ==
    /\ pc = "ready"
    /\ ~UsesPipe(args)
    /\ ForwardStep

\* ... and then the loss function that forward_step returned
StepLossFunc ==
    /\ pc = "ready"
    /\ MonoLossFunc

NextStep ==
    \/ DataPostProcess
    \/ GetBatchPipe
    \/ StepForwardStep
    \/ StepLossFunc

SpecStep == InitStep /\ [][NextStep]_vars

\* ------------------------------------------ properties of the staged forward
\* what the single call custom_forward(model, 0, flex.next) returns on the
\* output of pre_process_func
SingleCall ==
    LET r == pre_process_func(flex.inputs.model_inputs)
    IN custom_forward(layers, 0, flex.next,
                      [x |-> r.passed_down.x, moe_losses |-> r.passed_down.moe_losses,
                       applied |-> <<>>],
                      r.each_layer.attention_mask)

\* C10: after adjacent ranges covering [0, next) the layers 0..next-1 have each
\* been applied once, in increasing order, the auxiliary-loss list has one
\* entry per layer (the layer's auxiliary loss, a zero scalar for a layer that
\* returns hidden states alone), and the state equals that of a single
\* custom_forward(0, next) call.
C10_Accumulation ==
    flex.phase \in {"layers", "post", "done"} =>
        /\ flex.st.applied = [i \in 1..flex.next |-> i - 1]
        /\ Len(flex.st.moe_losses) = flex.next
        /\ \A i \in 1..flex.next :
              flex.st.moe_losses[i] =
                  (IF layers[i].tuple THEN layers[i].moe ELSE Scalar(0))
        /\ flex.st = SingleCall
        /\ (flex.phase # "layers" => flex.next = Len(layers))

C10_Witness ==
    /\ flex.phase = "layers"
    /\ Len(layers) = 3 /\ flex.next = 3 /\ flex.stages = 2
    /\ ~layers[1].tuple /\ layers[2].moe = Scalar(1) /\ layers[3].moe = NoneLoss
    /\ flex.st.moe_losses = <<Scalar(0), Scalar(1), NoneLoss>>

BothDone == flex.phase = "done" /\ mono.phase \in {"done", "failed"}

\* C3 as stated: on the same inputs and under any configuration the staged
\* path and forward_step followed by loss_func give the same total loss.
C3_SameTotal ==
    BothDone =>
        /\ mono.phase = "done"
        /\ flex.result.error = None /\ mono.result.error = None
        /\ flex.result.loss = mono.result.loss

\* the configurations flextrain_loss_func supports: no distillation loss is
\* computed and the legacy curriculum does not truncate
BasicTraining ==
    /\ ~((args.mos \/ args.kd) /\ args.teacher_forward /\ args.teacher_model.present)
    /\ ~LegacyTruncates(args)

\* C3 amended: in basic training both paths succeed with the same total loss,
\* the same auxiliary loss and no distillation loss.
C3_SameTotalBasic ==
    (BothDone /\ BasicTraining) =>
        /\ mono.phase = "done"
        /\ flex.result.error = None /\ mono.result.error = None
        /\ flex.result.loss = mono.result.loss
        /\ FlexMoeLoss(args, flex.model_output.moe_losses) = mono.fs.moe_loss
        /\ mono.fs.mos_loss = Scalar(0)
        /\ flex.result.metrics = mono.result.metrics

C3_Witness ==
    /\ BothDone /\ BasicTraining
    /\ mono.phase = "done"
    /\ flex.stages = 2
    /\ args.moe_loss_coeff = Frac(1, 2)
    /\ args.kd
    /\ mono.fs.moe_loss = Scalar(1)
    /\ flex.result.loss = mono.result.loss
    /\ flex.result.loss.n > flex.result.loss.d

\* ------------------------------------------------- properties of loss_func
LossReturned == pc = "done" /\ lossOut # NotRun /\ lossOut.error = None

\* sum of the per-token losses at the unmasked positions, and their number
RECURSIVE SumOver(_, _)
SumOver(f, S) ==
    IF S = {} THEN 0
    ELSE LET i == CHOOSE j \in S : TRUE IN f[i] + SumOver(f, S \ {i})

Unmasked == {i \in 1..Len(lossIn.loss_mask[1]) : lossIn.loss_mask[1][i] = 1}

\* the local primary loss as an exact fraction num/den: num * den' = num' * den
PrimaryIs(x) ==
    /\ x.d # 0
    /\ x.n * Cardinality(Unmasked) = SumOver(lossIn.output_tensor[1], Unmasked) * x.d

Distill == args.mos \/ args.kd

MoreExperts == \E i \in 1..Len(args.num_experts) : args.num_experts[i] > 1

LocalPrimary == MaskedMean(Flatten(lossIn.output_tensor), Flatten(lossIn.loss_mask))

\* C7: the returned scalar is the local primary loss plus the auxiliary and
\* distillation losses in mos/kd mode, plus the auxiliary loss alone when
\* max(num_experts) > 1, and the primary alone otherwise; the averaged primary
\* loss is only a metric.
C7_Combination ==
    LossReturned =>
        /\ lossOut.loss =
              (IF Distill
               THEN Add(LocalPrimary, Add(lossIn.moe_loss, lossIn.mos_loss))
               ELSE IF MoreExperts THEN Add(LocalPrimary, lossIn.moe_loss)
               ELSE LocalPrimary)
        /\ lossOut.metrics["lm loss"] =
              average_losses_across_data_parallel_group(LocalPrimary, lossIn.others)

C7_Witness ==
    /\ LossReturned
    /\ Distill /\ lossIn.moe_loss = Frac(1, 2) /\ lossIn.mos_loss = Scalar(2)
    /\ lossIn.others # <<>>
    /\ LocalPrimary = Frac(3, 2)
    /\ lossOut.loss = Scalar(4)
    /\ lossOut.metrics["lm loss"] # LocalPrimary

\* C8 as stated: 'lm loss' is always present, 'moe loss' only with more than
\* one expert, 'mos loss'/'kd loss' and 'total loss' only in distillation mode.
C8_KeysAsStated ==
    LossReturned =>
        /\ "lm loss" \in DOMAIN lossOut.metrics
        /\ ("moe loss" \in DOMAIN lossOut.metrics => MoreExperts)
        /\ ("mos loss" \in DOMAIN lossOut.metrics => Distill)
        /\ ("kd loss" \in DOMAIN lossOut.metrics => Distill)
        /\ ("total loss" \in DOMAIN lossOut.metrics => Distill)
        /\ ((~Distill /\ ~MoreExperts) => DOMAIN lossOut.metrics = {"lm loss"})

\* C8 amended: 'moe loss' is present exactly when the auxiliary loss is part
\* of the total, that is in distillation mode or with more than one expert.
C8_Keys ==
    LossReturned =>
        DOMAIN lossOut.metrics =
            {"lm loss"}
            \cup (IF Distill \/ MoreExperts THEN {"moe loss"} ELSE {})
            \cup (IF Distill THEN {"total loss"} ELSE {})
            \cup (IF args.mos THEN {"mos loss"} ELSE {})
            \cup (IF args.kd /\ ~args.mos THEN {"kd loss"} ELSE {})

C8_Witness ==
    /\ LossReturned
    /\ args.kd /\ ~args.mos /\ ~MoreExperts
    /\ DOMAIN lossOut.metrics = {"total loss", "lm loss", "moe loss", "kd loss"}

\* C9: the primary loss is the sum of the per-token losses at the unmasked
\* positions divided by the number of unmasked positions; with an all-ones
\* mask over N tokens whose losses sum to S it is S/N.
C9_MaskedMean ==
    (LossReturned /\ Unmasked # {}) =>
        /\ ((~Distill /\ ~MoreExperts) => PrimaryIs(lossOut.loss))
        /\ (lossIn.others = <<>> => PrimaryIs(lossOut.metrics["lm loss"]))
        /\ ((Unmasked = 1..Len(lossIn.loss_mask[1]) /\ lossIn.others = <<>>) =>
                lossOut.metrics["lm loss"] =
                    Frac(SumSeq(lossIn.output_tensor[1]), Len(lossIn.output_tensor[1])))

C9_Witness ==
    /\ LossReturned
    /\ ~Distill /\ ~MoreExperts /\ lossIn.others = <<>>
    /\ lossIn.output_tensor = <<<<2, 1, 2>>>>
    /\ lossIn.loss_mask = <<<<1, 0, 1>>>>
    /\ lossOut.loss = Scalar(2)

C9_WitnessAllOnes ==
    /\ LossReturned
    /\ lossIn.others = <<>>
    /\ lossIn.output_tensor = <<<<2, 1, 2>>>>
    /\ lossIn.loss_mask = <<<<1, 1, 1>>>>
    /\ lossOut.metrics["lm loss"] = Frac(5, 3)

\* ------------------------------------------------- properties of get_batch
\* the group size and rank that get_batch slices by
EffWorld == IF args.sequence_parallel THEN mpuState.tp_world_size
            ELSE mpuState.sp_world_size

EffRank(p) == IF args.sequence_parallel THEN p.tp_rank ELSE p.sp_rank

\* the process of p's group that has rank R
Peer(p, R) == IF args.sequence_parallel THEN [p EXCEPT !.tp_rank = R]
              ELSE [p EXCEPT !.sp_rank = R]

Returned(p) == batch[p] # NotRun /\ batch[p].error = None

AllReturned == \A p \in Procs(mpuState) : Returned(p)

\* the unsliced tensors, cell by cell
SeqOf == Cols(data) - 1

FullTokens == [r \in 1..Rows(data) |-> [c \in 1..SeqOf |-> data[r][c]]]

FullLabels == [r \in 1..Rows(data) |-> [c \in 1..SeqOf |-> data[r][c + 1]]]

FullPositionIds ==
    get_ltor_masks_and_position_ids(FullTokens, args.reset_position_ids,
                                    args.eod_mask_loss, args.use_flash_attn).position_ids

\* columns [R*seq/W, (R+1)*seq/W) of m, cell by cell
RankColumns(m, R) ==
    LET sub == SeqOf \div EffWorld
    IN [r \in 1..Rows(m) |-> [c \in 1..sub |-> m[r][R * sub + c]]]

\* C1: each rank R keeps exactly columns [R*seq/W, (R+1)*seq/W) of tokens and
\* position_ids, and concatenating the slices of ranks 0..W-1 in rank order
\* gives back the unsliced tokens and position_ids.
C1_SlicesReconstruct ==
    (pc = "ready" /\ AllReturned) =>
        \A p \in Procs(mpuState) :
            /\ batch[p].tokens = RankColumns(FullTokens, EffRank(p))
            /\ batch[p].position_ids = RankColumns(FullPositionIds, EffRank(p))
            /\ CatCols([i \in 1..EffWorld |-> batch[Peer(p, i - 1)].tokens],
                       EffWorld) = FullTokens
            /\ CatCols([i \in 1..EffWorld |-> batch[Peer(p, i - 1)].position_ids],
                       EffWorld) = FullPositionIds

C1_Witness ==
    /\ pc = "ready" /\ AllReturned
    /\ EffWorld = 2 /\ SeqOf = 4 /\ Rows(data) = 2
    /\ args.reset_position_ids /\ \E c \in 1..2 : data[1][c] = EOD

\* C2 as stated: tokens, labels, loss_mask and position_ids returned by
\* get_batch all have the same [batch, seq] shape, in every sequence-parallel
\* mode.
C2_SameShape ==
    \A p \in Procs(mpuState) :
        Returned(p) =>
            /\ Shape(batch[p].tokens) = Shape(batch[p].labels)
            /\ Shape(batch[p].tokens) = Shape(batch[p].loss_mask)
            /\ Shape(batch[p].tokens) = Shape(batch[p].position_ids)

\* C2 amended: tokens and position_ids have the shape [batch, seq/W], loss_mask
\* keeps [batch, seq], labels has the shape of tokens in the dedicated mode
\* and [batch, seq] otherwise; the four shapes agree exactly when W = 1.
C2_Shapes ==
    \A p \in Procs(mpuState) :
        Returned(p) =>
            /\ Shape(batch[p].tokens) = <<Rows(data), SeqOf \div EffWorld>>
            /\ Shape(batch[p].position_ids) = Shape(batch[p].tokens)
            /\ Shape(batch[p].loss_mask) = <<Rows(data), SeqOf>>
            /\ Shape(batch[p].labels) =
                  (IF mpuState.sp_world_size > 1 THEN Shape(batch[p].tokens)
                   ELSE <<Rows(data), SeqOf>>)
            /\ (EffWorld = 1 <=>
                    /\ Shape(batch[p].tokens) = Shape(batch[p].labels)
                    /\ Shape(batch[p].tokens) = Shape(batch[p].loss_mask))

C2_Witness ==
    /\ AllReturned
    /\ mpuState.sp_world_size = 2 /\ SeqOf = 4 /\ Rows(data) = 2
    /\ \E p \in Procs(mpuState) :
          /\ Shape(batch[p].tokens) = <<2, 2>>
          /\ Shape(batch[p].labels) = <<2, 2>>
          /\ Shape(batch[p].loss_mask) = <<2, 4>>

C6_WitnessDedicated ==
    /\ AllReturned
    /\ mpuState.sp_world_size = 2 /\ SeqOf = 4
    /\ \E p \in Procs(mpuState) : p.sp_rank = 1 /\ Cols(batch[p].labels) = 2

\* ----------------------------------------- properties of data_post_process
TruncateRan ==
    /\ pc = "ready"
    /\ args.data_efficiency_curriculum_learning
    /\ "seqlen_truncate" \in DOMAIN current_difficulties

ReshapeRan ==
    /\ pc = "ready"
    /\ args.data_efficiency_curriculum_learning
    /\ "seqlen_truncate" \notin DOMAIN current_difficulties
    /\ "seqlen_reshape" \in DOMAIN current_difficulties

\* C4 as stated: in seqlen_reshape mode with current_seqlen < seq_length the
\* transformed batch has at most as many token cells as the input batch.
C4_NoMoreCells ==
    (ReshapeRan /\ current_difficulties["seqlen_reshape"] < args.seq_length) =>
        Rows(data) * (current_difficulties["seqlen_reshape"] + 1) <= Numel(raw)

\* C4 amended: every row has current_seqlen+1 columns, every cell is a copy of
\* an input cell, and the cell count exceeds the input's by less than one row
\* (the row count is at most ceil(input cells / (current_seqlen+1))).
C4_LessThanOneRowMore ==
    (ReshapeRan /\ current_difficulties["seqlen_reshape"] < args.seq_length) =>
        LET k == current_difficulties["seqlen_reshape"] + 1
        IN /\ \A r \in 1..Rows(data) : Len(data[r]) = k
           /\ Rows(data) * k < Numel(raw) + k
           /\ \A r \in 1..Rows(data) : \A c \in 1..k :
                 \E r0 \in 1..Rows(raw) : \E c0 \in 1..Cols(raw) :
                     data[r][c] = raw[r0][c0]

C4_Witness ==
    /\ ReshapeRan
    /\ current_difficulties["seqlen_reshape"] = 2 /\ args.seq_length = 4
    /\ Rows(raw) = 1 /\ Rows(data) = 2 /\ Numel(data) = 6

\* C5: seqlen_truncate with current_seqlen < seq_length keeps the rows and
\* the first current_seqlen+1 columns of every row; get_batch then splits
\* them into tokens = columns [0, current_seqlen) and labels = columns
\* [1, current_seqlen]; with current_seqlen >= seq_length the batch is
\* returned unchanged.
C5_TruncatePrefix ==
    TruncateRan =>
        LET cs == current_difficulties["seqlen_truncate"]
        IN IF cs < args.seq_length
           THEN /\ Rows(data) = Rows(raw)
                /\ \A r \in 1..Rows(data) :
                      /\ Len(data[r]) = cs + 1
                      /\ \A c \in 1..(cs + 1) : data[r][c] = raw[r][c]
                /\ \A p \in Procs(mpuState) :
                      (Returned(p) /\ EffWorld = 1 /\ mpuState.sp_world_size = 1) =>
                          /\ batch[p].tokens =
                                [r \in 1..Rows(raw) |-> [c \in 1..cs |-> raw[r][c]]]
                          /\ batch[p].labels =
                                [r \in 1..Rows(raw) |-> [c \in 1..cs |-> raw[r][c + 1]]]
           ELSE data = raw

\* the spec's scenario: raw [[1,2,3,4,5]], current_seqlen 2
C5_Witness ==
    /\ TruncateRan
    /\ current_difficulties["seqlen_truncate"] = 2
    /\ raw = <<<<1, 2, 3, 4, 5>>>>
    /\ data = <<<<1, 2, 3>>>>
    /\ \E p \in Procs(mpuState) :
          /\ Returned(p)
          /\ batch[p].tokens = <<<<1, 2>>>>
          /\ batch[p].labels = <<<<2, 3>>>>

\* -------------------------------------------- properties of the training step
\* the truncation mode the sampler's current difficulties select
ModeOf(difficulties) ==
    IF "seqlen_truncate" \in DOMAIN difficulties THEN "seqlen_truncate"
    ELSE IF "seqlen_reshape" \in DOMAIN difficulties THEN "seqlen_reshape"
    ELSE None

PostProcessStep == pc = "loaded" /\ pc' = "ready"
ForwardStepStep == mono.phase = "start" /\ mono'.phase # "start"
LossFuncStep == mono.phase = "stepped" /\ mono'.phase = "done"
BatchPipeStep == pipe = NotRun /\ pipe' # NotRun

\* C11 as stated: no step of data_post_process, get_batch, get_batch_pipe,
\* forward_step, calculate_mos_loss or loss_func changes the curriculum
\* sequence length or the truncation mode held in the global args.
C11_ReadOnly ==
    [][/\ args'.curriculum_seqlen = args.curriculum_seqlen
       /\ args'.seqlen_type = args.seqlen_type]_vars

\* C11, amended: with data-efficiency curriculum learning off no step changes
\* args at all; get_batch_pipe and loss_func never change args; with it on,
\* data_post_process (and no other step) writes the truncation mode, setting it
\* to the mode of the sampler's current difficulties and leaving the curriculum
\* sequence length alone, and forward_step (and no other step) writes the
\* curriculum sequence length, setting it to the width of the tokens get_batch
\* returned and leaving the truncation mode alone.
C11_WritesOnlyUnderDataEfficiency ==
    [][LET de == args.data_efficiency_curriculum_learning
       IN /\ (~de => args' = args)
          /\ (BatchPipeStep \/ LossFuncStep => args' = args)
          /\ (args'.seqlen_type # args.seqlen_type => PostProcessStep /\ de)
          /\ (args'.curriculum_seqlen # args.curriculum_seqlen => ForwardStepStep /\ de)
          /\ (PostProcessStep /\ de =>
                 /\ args'.seqlen_type = ModeOf(current_difficulties)
                 /\ args'.curriculum_seqlen = args.curriculum_seqlen)
          /\ (ForwardStepStep /\ de =>
                 /\ args'.curriculum_seqlen = Cols(data) - 1
                 /\ args'.seqlen_type = args.seqlen_type)]_vars

\* forward_step has overwritten the scheduler's curriculum sequence length (the
\* legacy flag is off, so the step began with it equal to seq_length) and
\* data_post_process has written the truncation mode
C11_Witness ==
    /\ mono.phase = "done"
    /\ args.data_efficiency_curriculum_learning
    /\ ~args.curriculum_learning_legacy
    /\ args.seqlen_type = "seqlen_truncate"
    /\ args.seq_length = 4
    /\ args.curriculum_seqlen = 2
    /\ Cols(raw) = 5 /\ Cols(data) = 3

\* the legacy curriculum is active and shorter than the configured length
LegacyShorter ==
    args.curriculum_learning_legacy /\ args.curriculum_seqlen < args.seq_length

\* the sequence extent of the loaded batch's tokens (the text less one column)
BatchWidth == Cols(data) - 1

Stepped == mono.phase \in {"stepped", "done"}
Piped == pipe # NotRun

\* the teacher forward pass is part of forward_step
TeacherRuns ==
    (args.mos \/ args.kd) /\ args.teacher_forward /\ args.teacher_model.present

\* the extent of an attention mask, where there is one
MaskExtentIs(attention_mask, n) == attention_mask # NoMask => attention_mask.seq = n

\* C12 as stated: whenever the legacy curriculum flag is active and
\* curriculum_seqlen is smaller than the configured sequence length, the
\* tokens, position ids, attention mask, labels and loss mask of the step, out
\* of get_batch_pipe or in forward_step, all have sequence extent
\* curriculum_seqlen.
C12_AllCurriculumSeqlen ==
    LegacyShorter =>
        /\ Piped =>
              /\ Cols(pipe.tokens) = args.curriculum_seqlen
              /\ Cols(pipe.position_ids) = args.curriculum_seqlen
              /\ Cols(pipe.labels) = args.curriculum_seqlen
              /\ Cols(pipe.loss_mask) = args.curriculum_seqlen
              /\ MaskExtentIs(pipe.attention_mask, args.curriculum_seqlen)
        /\ Stepped =>
              /\ Cols(mono.fs.model_inputs.tokens) = args.curriculum_seqlen
              /\ Cols(mono.fs.model_inputs.position_ids) = args.curriculum_seqlen
              /\ Cols(mono.fs.labels) = args.curriculum_seqlen
              /\ Cols(mono.fs.loss_mask) = args.curriculum_seqlen
              /\ MaskExtentIs(mono.fs.model_inputs.attention_mask, args.curriculum_seqlen)

\* C12, amended: the tensors a site truncates all get the one extent
\* n = min(curriculum_seqlen, width of the batch) when the legacy flag is on,
\* and the others keep the width of the batch.  get_batch_pipe gives tokens,
\* position ids, labels and loss mask extent n and leaves the attention mask at
\* the batch width.  When the legacy curriculum is shorter than seq_length,
\* forward_step gives the loss mask extent curriculum_seqlen, and the labels
\* too in mos/kd mode only; the tokens, position ids and attention mask it
\* hands to the student model keep the batch width (get_batch truncates
\* nothing); calculate_mos_loss hands the teacher tokens, position ids and
\* attention mask of extent curriculum_seqlen, and forward_step fails exactly
\* when the teacher runs and there is no attention mask to truncate.
C12_TruncatedExtents ==
    /\ Piped =>
          LET n == IF args.curriculum_learning_legacy
                   THEN Min(args.curriculum_seqlen, BatchWidth) ELSE BatchWidth
          IN /\ Cols(pipe.tokens) = n
             /\ Cols(pipe.position_ids) = n
             /\ Cols(pipe.labels) = n
             /\ Cols(pipe.loss_mask) = n
             /\ pipe.attention_mask # NoMask
             /\ pipe.attention_mask.seq = BatchWidth
    /\ Stepped =>
          LET n == IF LegacyShorter THEN args.curriculum_seqlen ELSE BatchWidth
          IN /\ Cols(mono.fs.loss_mask) = n
             /\ Cols(mono.fs.labels) = (IF args.mos \/ args.kd THEN n ELSE BatchWidth)
             /\ Cols(mono.fs.model_inputs.tokens) = BatchWidth
             /\ Cols(mono.fs.model_inputs.position_ids) = BatchWidth
             /\ MaskExtentIs(mono.fs.model_inputs.attention_mask, BatchWidth)
             /\ (mono.fs.model_inputs.attention_mask = NoMask <=> args.use_flash_attn)
             /\ (mono.fs.teacher_inputs.called <=> TeacherRuns)
             /\ (TeacherRuns =>
                    /\ Cols(mono.fs.teacher_inputs.tokens) = n
                    /\ Cols(mono.fs.teacher_inputs.position_ids) = n
                    /\ MaskExtentIs(mono.fs.teacher_inputs.attention_mask, n))
    /\ (mono.phase = "failed" <=>
           /\ mono.phase # "start"
           /\ LegacyShorter /\ TeacherRuns /\ args.use_flash_attn)

\* get_batch_pipe has truncated tokens, position ids, labels and loss mask to a
\* curriculum_seqlen of 2 out of 4 and left the attention mask at 4
C12_Witness ==
    /\ Piped
    /\ LegacyShorter
    /\ args.curriculum_seqlen = 2 /\ args.seq_length = 4 /\ BatchWidth = 4
    /\ Cols(pipe.tokens) = 2 /\ Cols(pipe.labels) = 2
    /\ pipe.attention_mask.seq = 4

\* forward_step in kd mode has truncated labels and loss mask, and the
\* teacher's inputs, to a curriculum_seqlen of 2 out of 4; the student's inputs
\* have extent 4
C12_WitnessForward ==
    /\ mono.phase = "done"
    /\ LegacyShorter /\ args.kd
    /\ args.curriculum_seqlen = 2 /\ args.seq_length = 4
    /\ mono.fs.teacher_inputs.called
    /\ Cols(mono.fs.teacher_inputs.tokens) = 2
    /\ mono.fs.teacher_inputs.attention_mask.seq = 2
    /\ Cols(mono.fs.labels) = 2 /\ Cols(mono.fs.loss_mask) = 2
    /\ Cols(mono.fs.model_inputs.tokens) = 4
    /\ mono.fs.model_inputs.attention_mask.seq = 4

\* forward_step has failed in calculate_mos_loss: the attention mask is None
C12_WitnessFailed ==
    /\ mono.phase = "failed"
    /\ mono.fs.error = "TypeError"
    /\ LegacyShorter /\ args.use_flash_attn

====
